---------------------------- MODULE Spec2Model ----------------------------
(***************************************************************************)
(* A model of the subtitle generator: the Line Segmenter                   *)
(* (split_into_short_lines), the Sentence Splitter (split_at_punctuation), *)
(* the Subtitle Serializer (create_srt_file) and the Pipeline Orchestrator *)
(* (process_video) with its calls of the external media tool; and, each on  *)
(* its own, the Recognition Adapter (transcribe_audio), format_time on     *)
(* Python floats, and process_video runs executing side by side.           *)
(*                                                                         *)
(* Texts are sequences of one-character strings.  Times are exact          *)
(* rationals <<numerator, denominator>> in lowest terms, denominator > 0.  *)
(***************************************************************************)
EXTENDS Integers, Sequences, FiniteSets, TLC

VARIABLES
    stage,              \* position of the function-level specifications
    raw_segments,       \* the recognition batches (transcribe_audio's result)
    max_line_length,    \* Line Segmenter threshold, characters
    max_line_duration,  \* Line Segmenter threshold, seconds
    segments,           \* a segment list: the Line Segmenter's output
    refined,            \* split_at_punctuation's output
    refined2,           \* split_at_punctuation applied to its own output
    srt,                \* the create_srt_file call in progress
    fs,                 \* the file system: path -> contents, "absent" when none
    pc,                 \* the orchestrator's state
    run,                \* process_video's locals and what it returned
    calls,              \* the transcribe_audio calls made, each with what it returned
    stamp,              \* a format_time call: its argument and its result
    sessions            \* process_video runs executing side by side

segVars == <<raw_segments, max_line_length, max_line_duration, segments, refined, refined2>>
fnVars == <<calls, stamp, sessions>>
vars == <<stage, raw_segments, max_line_length, max_line_duration, segments,
          refined, refined2, srt, fs, pc, run, calls, stamp, sessions>>

----------------------------------------------------------------------------
(* Bounds of the model. *)

MaxTime == 1
MaxWords == 3
MaxLen == 5
MaxChars == 5
MaxSegs == 3
MaxRunWords == 2
MaxDur == 2

----------------------------------------------------------------------------
(* Exact rational arithmetic for the timestamps. *)

Abs(x) == IF x < 0 THEN -x ELSE x

RECURSIVE GCD(_, _)
GCD(a, b) == IF b = 0 THEN a ELSE GCD(b, a % b)

Rat(n, d) == LET g == GCD(Abs(n), d) IN <<n \div g, d \div g>>
Q(n) == <<n, 1>>
RAdd(x, y) == Rat(x[1] * y[2] + y[1] * x[2], x[2] * y[2])
RSub(x, y) == Rat(x[1] * y[2] - y[1] * x[2], x[2] * y[2])
RMulInt(k, x) == Rat(k * x[1], x[2])
RDivInt(x, k) == Rat(x[1], x[2] * k)
RLe(x, y) == x[1] * y[2] <= y[1] * x[2]
RLt(x, y) == x[1] * y[2] < y[1] * x[2]

----------------------------------------------------------------------------
(* Python's str operations on texts. *)

Whitespace == {" "}
Terminal == {".", "!", "?"}

RECURSIVE lstrip(_)
lstrip(s) == IF s = <<>> THEN s
             ELSE IF Head(s) \in Whitespace THEN lstrip(Tail(s)) ELSE s

RECURSIVE rstrip(_)
rstrip(s) == IF s = <<>> THEN s
             ELSE IF s[Len(s)] \in Whitespace THEN rstrip(SubSeq(s, 1, Len(s) - 1)) ELSE s

strip(s) == rstrip(lstrip(s))

(* re.search(r'[.!?]', text) *)
re_search(text) == \E i \in 1..Len(text) : text[i] \in Terminal

(* re.split(r'([.!?])', text): the pieces between the marks and the marks
   themselves, alternating; always an odd number of parts. *)
RECURSIVE re_split_from(_, _, _)
re_split_from(text, i, cur) ==
    IF i > Len(text) THEN <<cur>>
    ELSE IF text[i] \in Terminal
         THEN <<cur, <<text[i]>>>> \o re_split_from(text, i + 1, <<>>)
         ELSE re_split_from(text, i + 1, Append(cur, text[i]))

re_split(text) == re_split_from(text, 1, <<>>)

----------------------------------------------------------------------------
(* The Line Segmenter. *)

Segment(text, start, end) == [text |-> text, start |-> start, end |-> end]

(* The line buffer appended as a segment (lines 91-95 and 108-112). *)
FlushLine(st) ==
    Append(st.segments,
           Segment(strip(st.current_text), st.line_start_time,
                   st.current_line[Len(st.current_line)].end))

(* LineBreaks without the duration test. *)
LineBreaksNoDuration(st, word, L, D) ==
    Len(st.current_text \o word.word) > L

(* LineBreaks with a line of exactly L characters refused. *)
LineBreaksAtLimit(st, word, L, D) ==
    \/ Len(st.current_text \o word.word) >= L
    \/ RLt(D, RSub(word.end, st.line_start_time))

(* The flush condition of line 87-88. *)
LineBreaks(st, word, L, D) ==
    \/ Len(st.current_text \o word.word) > L
    \/ RLt(D, RSub(word.end, st.line_start_time))

(* WordStep with a new line started empty: the word that broke the line is lost. *)
WordStepDropsWord(st, word, L, D) ==
    IF LineBreaks(st, word, L, D)
    THEN [segments |-> IF st.current_line # <<>> THEN FlushLine(st) ELSE st.segments,
          current_line |-> <<>>,
          current_text |-> <<>>,
          line_start_time |-> word.start]
    ELSE [segments |-> st.segments,
          current_line |-> Append(st.current_line, word),
          current_text |-> st.current_text \o word.word \o <<" ">>,
          line_start_time |-> st.line_start_time]

(* One iteration of the loop over a batch's words (lines 83-104). *)
WordStep(st, word, L, D) ==
    IF LineBreaks(st, word, L, D)
    THEN [segments |-> IF st.current_line # <<>> THEN FlushLine(st) ELSE st.segments,
          current_line |-> <<word>>,
          current_text |-> word.word \o <<" ">>,
          line_start_time |-> word.start]
    ELSE [segments |-> st.segments,
          current_line |-> Append(st.current_line, word),
          current_text |-> st.current_text \o word.word \o <<" ">>,
          line_start_time |-> st.line_start_time]

RECURSIVE WordLoop(_, _, _, _, _)
WordLoop(st, words, i, L, D) ==
    IF i > Len(words) THEN st
    ELSE WordLoop(WordStep(st, words[i], L, D), words, i + 1, L, D)

(* One iteration of the loop over the batches (lines 71-112). *)
BatchStep(segs, raw_segment, L, D) ==
    LET words == raw_segment.result IN
    IF words = <<>> THEN segs
    ELSE LET st0 == [segments |-> segs, current_line |-> <<>>,
                     current_text |-> <<>>, line_start_time |-> words[1].start]
             st == WordLoop(st0, words, 1, L, D)
         IN IF st.current_line # <<>> THEN FlushLine(st) ELSE st.segments

RECURSIVE BatchLoop(_, _, _, _, _)
BatchLoop(segs, raw, i, L, D) ==
    IF i > Len(raw) THEN segs
    ELSE BatchLoop(BatchStep(segs, raw[i], L, D), raw, i + 1, L, D)

split_into_short_lines(raw, L, D) == BatchLoop(<<>>, raw, 1, L, D)

----------------------------------------------------------------------------
(* The Sentence Splitter. *)

(* Each piece joined with the mark that follows it (lines 132-137). *)
RECURSIVE GroupParts(_, _)
GroupParts(parts, i) ==
    IF i >= Len(parts) THEN <<>>
    ELSE <<(IF i + 1 <= Len(parts) THEN parts[i] \o parts[i + 1] ELSE parts[i])>>
         \o GroupParts(parts, i + 2)

(* Sentences with the text after the last mark left out. *)
SentencesDropsRemainder(text) == GroupParts(re_split(text), 1)

(* The text after the last mark stays with the last sentence (lines 140-141). *)
Sentences(text) ==
    LET parts == re_split(text)
        grouped == GroupParts(parts, 1)
    IN IF Len(parts) % 2 = 1 /\ grouped # <<>>
       THEN [grouped EXCEPT ![Len(grouped)] = @ \o parts[Len(parts)]]
       ELSE grouped

RECURSIVE SumLen(_)
SumLen(ss) == IF ss = <<>> THEN 0 ELSE Len(Head(ss)) + SumLen(Tail(ss))

(* RunEnd with the duration taken from the trimmed sentence. *)
RunEndStripped(current_time, sentence, time_per_char) ==
    RAdd(current_time, RMulInt(Len(strip(sentence)), time_per_char))

(* RunEnd with the terminal mark left out of the sentence's length. *)
RunEndNoMark(current_time, sentence, time_per_char) ==
    RAdd(current_time, RMulInt(Len(sentence) - 1, time_per_char))

(* The run's end: current_time + len(sentence) * time_per_char (lines 163-164). *)
RunEnd(current_time, sentence, time_per_char) ==
    RAdd(current_time, RMulInt(Len(sentence), time_per_char))

(* The loop that hands out the time span (lines 158-172). *)
RECURSIVE Distribute(_, _, _, _)
Distribute(sentences, i, current_time, time_per_char) ==
    IF i > Len(sentences) THEN <<>>
    ELSE IF strip(sentences[i]) = <<>>
         THEN Distribute(sentences, i + 1, current_time, time_per_char)
         ELSE LET end_time == RunEnd(current_time, sentences[i], time_per_char)
              IN <<Segment(strip(sentences[i]), current_time, end_time)>>
                 \o Distribute(sentences, i + 1, end_time, time_per_char)

(* SplitSegment with the time span taken as start - end. *)
SplitSegmentReversedSpan(segment) ==
    IF ~re_search(segment.text) THEN <<segment>>
    ELSE LET sentences == Sentences(segment.text)
             total_chars == SumLen(sentences)
         IN IF sentences = <<>> THEN <<segment>>
            ELSE IF total_chars = 0 THEN <<segment>>
            ELSE Distribute(sentences, 1, segment.start,
                            RDivInt(RSub(segment.start, segment.end), total_chars))

(* What one input segment contributes to refined_segments (lines 120-172). *)
SplitSegment(segment) ==
    IF ~re_search(segment.text) THEN <<segment>>
    ELSE LET sentences == Sentences(segment.text)
             total_chars == SumLen(sentences)
         IN IF sentences = <<>> THEN <<segment>>
            ELSE IF total_chars = 0 THEN <<segment>>
            ELSE Distribute(sentences, 1, segment.start,
                            RDivInt(RSub(segment.end, segment.start), total_chars))

RECURSIVE split_at_punctuation(_)
split_at_punctuation(segs) ==
    IF segs = <<>> THEN <<>>
    ELSE SplitSegment(Head(segs)) \o split_at_punctuation(Tail(segs))


----------------------------------------------------------------------------
(* The inputs the function-level specifications draw from. *)

WordTexts == {<<"a">>, <<"b", ".">>}
Chars == {"a", ".", "?", " "}

TimePairs == {p \in (0..MaxTime) \X (0..MaxTime) : p[1] <= p[2]}

(* A recognised word: its text and its interval, start <= end. *)
Words == {[word |-> w, start |-> Q(p[1]), end |-> Q(p[2])] : w \in WordTexts, p \in TimePairs}

(* The word sequences of length n in speech order: start times never decrease,
   intervals may overlap. *)
RECURSIVE WordSeqs(_)
WordSeqs(n) ==
    IF n = 0 THEN {<<>>}
    ELSE UNION {{Append(ws, w) : w \in {x \in Words : ws = <<>> \/ RLe(ws[Len(ws)].start, x.start)}}
                : ws \in WordSeqs(n - 1)}

RECURSIVE JoinTexts(_)
JoinTexts(texts) ==
    IF texts = <<>> THEN <<>>
    ELSE IF Len(texts) = 1 THEN texts[1]
    ELSE texts[1] \o <<" ">> \o JoinTexts(Tail(texts))

WordTextsOf(words) == [i \in 1..Len(words) |-> words[i].word]

(* One engine result with its word list: "text" is the words joined by spaces. *)
Batch(words) == [text |-> JoinTexts(WordTextsOf(words)), result |-> words]

(* An engine result that carries a text and no word list. *)
TextOnlyBatch == [text |-> <<"a">>, result |-> <<>>]

BatchesOf(n) == {Batch(ws) : ws \in WordSeqs(n)} \cup (IF n = 0 THEN {TextOnlyBatch} ELSE {})

(* One batch of three words: hi (0.0-0.5), there (0.6-1.0), friend (1.1-1.6). *)
HiThereFriend ==
    <<Batch(<<[word |-> <<"h", "i">>, start |-> Rat(0, 10), end |-> Rat(5, 10)],
              [word |-> <<"t", "h", "e", "r", "e">>, start |-> Rat(6, 10), end |-> Rat(10, 10)],
              [word |-> <<"f", "r", "i", "e", "n", "d">>, start |-> Rat(11, 10), end |-> Rat(16, 10)]>>)>>

(* The duration thresholds tried: multiples of half a second. *)
Durations == {Rat(d, 2) : d \in 1..MaxDur}

(* How k items are shared between two batches or segments. *)
Shares(k) == {q \in (0..k) \X (0..k) : q[1] + q[2] <= k}

(* raw is a batch list of at most two batches and at most k words in all. *)
IsBatchList(raw, k) ==
    \/ raw = <<>>
    \/ \E n \in 0..k : \E b \in BatchesOf(n) : raw = <<b>>
    \/ \E p \in Shares(k) : \E b1 \in BatchesOf(p[1]), b2 \in BatchesOf(p[2]) : raw = <<b1, b2>>

(* The segment lists the Sentence Splitter is tried on: one or two segments with
   any text over Chars, at most k characters in all, start <= end. *)
TextsOf(n) == [1..n -> Chars]
SegmentsOf(n) == {Segment(t, Q(p[1]), Q(p[2])) : t \in TextsOf(n), p \in TimePairs}
IsSegmentList(segs, k) ==
    \/ segs = <<>>
    \/ \E n \in 0..k : \E s \in SegmentsOf(n) : segs = <<s>>
    \/ \E p \in Shares(k) : \E s1 \in SegmentsOf(p[1]), s2 \in SegmentsOf(p[2]) : segs = <<s1, s2>>

----------------------------------------------------------------------------
(* The parts of the state a specification does not use stay as they start. *)

Paths == {"audio_path", "srt_path", "project_srt_path", "output_video_path"}

(* A file: whether it exists, its size (0 when empty) and, for a subtitle file,
   the blocks written to it. *)
File(exists, size, blocks) == [exists |-> exists, size |-> size, blocks |-> blocks]
Absent == File(FALSE, 0, <<>>)
NoFiles == [p \in Paths |-> Absent]

NoCall == [state |-> "none", path |-> "none", i |-> 0, segs |-> <<>>]

(* What process_video returns on success (lines 95-101). *)
NoResult == [output_video_path |-> "none", srt_path |-> "none", project_srt_path |-> "none",
             segments |-> <<>>, subtitle_burned |-> FALSE]

(* process_video before it starts: what the media tool did at extraction, how
   transcribe_audio ended, the messages shown with st.error, the progress of
   burn-in with the strategies tried, and what was returned. *)
NoRun == [extract |-> "none", transcribe |-> "none", errors |-> <<>>, burn |-> "none",
          tried |-> <<>>, returned |-> "pending", result |-> NoResult]

(* format_time not called. *)
NoStamp == [ms |-> 0, text |-> <<>>]

(* No process_video run started: no mkdtemp call made, no file written. *)
NoSessions == [runs |-> <<>>, dirs |-> 0, writes |-> {}]

IdleSrt == srt = NoCall /\ fs = NoFiles
IdleRun == pc = "Idle" /\ run = NoRun
IdleCalls == calls = {}
IdleStamp == stamp = NoStamp
IdleSessions == sessions = NoSessions
IdleSegments ==
    /\ raw_segments = <<>>
    /\ max_line_length = 1
    /\ max_line_duration = Q(1)
    /\ segments = <<>>
    /\ refined = <<>>
    /\ refined2 = <<>>

----------------------------------------------------------------------------
(* The Line Segmenter followed by the Sentence Splitter, on every batch list. *)

InitSeg ==
    /\ stage = "input"
    /\ \/ /\ IsBatchList(raw_segments, MaxWords)
          /\ max_line_length \in 1..MaxLen
          /\ max_line_duration \in Durations
       \/ /\ raw_segments = HiThereFriend
          /\ max_line_length \in {7, 8}
          /\ max_line_duration = Q(3)
    /\ segments = <<>>
    /\ refined = <<>>
    /\ refined2 = <<>>
    /\ IdleSrt
    /\ IdleRun
    /\ IdleCalls
    /\ IdleStamp
    /\ IdleSessions

LineSegmenter ==
    /\ stage = "input"
    /\ segments' = split_into_short_lines(raw_segments, max_line_length, max_line_duration)
    /\ stage' = "lines"
    /\ UNCHANGED <<fnVars, raw_segments, max_line_length, max_line_duration, refined, refined2,
                   srt, fs, pc, run>>

SentenceSplitter ==
    /\ stage = "lines"
    /\ refined' = split_at_punctuation(segments)
    /\ stage' = "refined"
    /\ UNCHANGED <<fnVars, raw_segments, max_line_length, max_line_duration, segments, refined2,
                   srt, fs, pc, run>>

NextSeg == LineSegmenter \/ SentenceSplitter

SpecSeg == InitSeg /\ [][NextSeg]_vars

----------------------------------------------------------------------------
(* The Sentence Splitter on every segment list, then on its own output. *)

InitSplit ==
    /\ stage = "lines"
    /\ raw_segments = <<>>
    /\ max_line_length = 1
    /\ max_line_duration = Q(1)
    /\ IsSegmentList(segments, MaxChars)
    /\ refined = <<>>
    /\ refined2 = <<>>
    /\ IdleSrt
    /\ IdleRun
    /\ IdleCalls
    /\ IdleStamp
    /\ IdleSessions

SplitAgain ==
    /\ stage = "refined"
    /\ refined2' = split_at_punctuation(refined)
    /\ stage' = "refined2"
    /\ UNCHANGED <<fnVars, raw_segments, max_line_length, max_line_duration, segments, refined,
                   srt, fs, pc, run>>

NextSplit == SentenceSplitter \/ SplitAgain

SpecSplit == InitSplit /\ [][NextSplit]_vars

----------------------------------------------------------------------------
(* The Subtitle Serializer. *)

Floor(x) == x[1] \div x[2]

(* Python's x % k on a non-negative time. *)
RMod(x, k) == RSub(x, Q(k * Floor(RDivInt(x, k))))

DigitChars == <<"0", "1", "2", "3", "4", "5", "6", "7", "8", "9">>

RECURSIVE Decimal(_)
Decimal(n) == IF n < 10 THEN <<DigitChars[n + 1]>>
              ELSE Append(Decimal(n \div 10), DigitChars[(n % 10) + 1])

(* The format specifications 02d and 03d: zero-padded to at least w digits. *)
RECURSIVE Padded(_, _)
Padded(digits, w) == IF Len(digits) >= w THEN digits ELSE Padded(<<"0">> \o digits, w)

(* format_time: HH:MM:SS,mmm by truncation, in exact arithmetic. *)
format_time(seconds) ==
    LET hours == Floor(RDivInt(seconds, 3600))
        s1 == RMod(seconds, 3600)
        minutes == Floor(RDivInt(s1, 60))
        s2 == RMod(s1, 60)
        milliseconds == Floor(RMulInt(1000, RSub(s2, Q(Floor(s2)))))
        secs == Floor(s2)
    IN Padded(Decimal(hours), 2) \o <<":">> \o Padded(Decimal(minutes), 2) \o <<":">>
       \o Padded(Decimal(secs), 2) \o <<",">> \o Padded(Decimal(milliseconds), 3)

(* WriteBlock with the blocks numbered as they are written. *)
WriteBlockRenumbered(blocks, i, segment) ==
    Append(blocks, [index |-> Len(blocks) + 1,
                    start |-> format_time(segment.start),
                    end |-> format_time(segment.end),
                    text |-> strip(segment.text)])

(* The three writes of one block: number, timestamps, text (lines 188-197). *)
WriteBlock(blocks, i, segment) ==
    Append(blocks, [index |-> i,
                    start |-> format_time(segment.start),
                    end |-> format_time(segment.end),
                    text |-> strip(segment.text)])

(* A call create_srt_file(segs, path) about to open its file. *)
Call(segs, path) == [state |-> "called", path |-> path, i |-> 1, segs |-> segs]

(* open(output_path, "w") creates the file or truncates it (line 182). *)
SrtOpen ==
    /\ srt.state = "called"
    /\ fs' = [fs EXCEPT ![srt.path] = File(TRUE, 0, <<>>)]
    /\ srt' = [srt EXCEPT !.state = "writing"]
    /\ UNCHANGED <<fnVars, stage, segVars, pc, run>>

(* makedirs or open fails: the error leaves the call (lines 179-182, 205-209). *)
SrtOpenFails ==
    /\ srt.state = "called"
    /\ srt' = [srt EXCEPT !.state = "raised"]
    /\ UNCHANGED <<fnVars, stage, segVars, fs, pc, run>>

(* One iteration of the loop over the segments (lines 183-197). *)
SrtWriteBlock ==
    /\ srt.state = "writing"
    /\ srt.i <= Len(srt.segs)
    /\ LET segment == srt.segs[srt.i]
           file == fs[srt.path]
           blocks == WriteBlock(file.blocks, srt.i, segment)
       IN fs' = IF strip(segment.text) = <<>> THEN fs
                ELSE [fs EXCEPT ![srt.path] = File(TRUE, Len(blocks), blocks)]
    /\ srt' = [srt EXCEPT !.i = @ + 1]
    /\ UNCHANGED <<fnVars, stage, segVars, pc, run>>

(* A write fails: the file is closed with what was written so far and the
   error is reported and raised again (lines 205-209). *)
SrtWriteFails ==
    /\ srt.state = "writing"
    /\ srt.i <= Len(srt.segs)
    /\ strip(srt.segs[srt.i].text) # <<>>
    /\ srt' = [srt EXCEPT !.state = "raised"]
    /\ UNCHANGED <<fnVars, stage, segVars, fs, pc, run>>

(* After the loop: a missing or empty file raises (lines 199-203). *)
SrtCheck ==
    /\ srt.state = "writing"
    /\ srt.i > Len(srt.segs)
    /\ srt' = [srt EXCEPT !.state =
                  IF ~fs[srt.path].exists \/ fs[srt.path].size = 0
                  THEN "raised" ELSE "returned"]
    /\ UNCHANGED <<fnVars, stage, segVars, fs, pc, run>>

create_srt_file == SrtOpen \/ SrtOpenFails \/ SrtWriteBlock \/ SrtWriteFails \/ SrtCheck

(* The texts the serializer is tried on: empty, blank, plain and padded. *)
SrtTexts == {<<>>, <<" ">>, <<"a">>, <<" ", "a">>}
SrtSegments == {Segment(t, Q(p[1]), Q(p[2])) : t \in SrtTexts, p \in TimePairs}

InitSrt ==
    /\ stage = "srt"
    /\ raw_segments = <<>>
    /\ max_line_length = 1
    /\ max_line_duration = Q(1)
    /\ \E n \in 0..MaxSegs : segments \in [1..n -> SrtSegments]
    /\ refined = <<>>
    /\ refined2 = <<>>
    /\ srt = Call(segments, "srt_path")
    /\ fs = NoFiles
    /\ IdleRun
    /\ IdleCalls
    /\ IdleStamp
    /\ IdleSessions

NextSrt == create_srt_file

SpecSrt == InitSrt /\ [][NextSrt]_vars

----------------------------------------------------------------------------
(* The Pipeline Orchestrator: process_video and the functions it calls. *)

(* The thresholds a run is started with. *)
RunLengths == {1, MaxLen}
RunDurations == {Rat(MaxDur, 2)}

Init ==
    /\ stage = "run"
    /\ raw_segments = <<>>
    /\ max_line_length \in RunLengths
    /\ max_line_duration \in RunDurations
    /\ segments = <<>>
    /\ refined = <<>>
    /\ refined2 = <<>>
    /\ IdleSrt
    /\ IdleRun
    /\ IdleCalls
    /\ IdleStamp
    /\ IdleSessions

Failed(message) ==
    [run EXCEPT !.errors = Append(@, message), !.returned = "None"]

(* The working directory and the paths are set up (lines 14-36). *)
Start ==
    /\ pc = "Idle"
    /\ stage = "run"
    /\ pc' = "ExtractingAudio"
    /\ UNCHANGED <<fnVars, stage, segVars, srt, fs, run>>

(* What the media tool may do when asked for the audio track. *)
ExtractOutcomes ==
    {"ok", "not_runnable", "nonzero_no_output", "nonzero_partial_output", "zero_no_output"}

ExtractionFailed(outcome) == outcome \in ExtractOutcomes \ {"ok"}

(* extract_audio (utils.py lines 118-134): subprocess.run without check, so only
   a tool that cannot be started raises; the exit code and the output file are
   not looked at, and the path is returned. *)
extract_audio ==
    /\ pc = "ExtractingAudio"
    /\ \E outcome \in ExtractOutcomes :
          IF outcome = "not_runnable"
          THEN /\ run' = [Failed("processing_error") EXCEPT !.extract = outcome]
               /\ pc' = "Failed"
               /\ fs' = fs
          ELSE /\ run' = [run EXCEPT !.extract = outcome]
               /\ pc' = "Transcribing"
               /\ fs' = IF outcome \in {"ok", "nonzero_partial_output"}
                        THEN [fs EXCEPT !["audio_path"] = File(TRUE, 1, <<>>)]
                        ELSE fs
    /\ UNCHANGED <<fnVars, stage, segVars, srt>>

(* What the engine may do once the audio is open. *)
EngineOutcomes == {"ok", "model_load_failure", "engine_error"}

(* The format check of line 20. extract_audio's command fixes one channel and
   the wav format, 16-bit PCM, so the audio file of a run has that format. *)
MonoPcm16(file) == file.exists

(* The batches transcribe_audio keeps: those with a non-empty text (lines 49, 55). *)
IsTranscript(raw, k) ==
    /\ IsBatchList(raw, k)
    /\ \A i \in DOMAIN raw : strip(raw[i].text) # <<>>

(* transcribe_audio (lines 9-65): the model is loaded, the audio opened and
   checked, the chunks fed to the engine; every exception is reported and
   turned into an empty list. *)
transcribe_audio ==
    /\ pc = "Transcribing"
    /\ \E outcome \in EngineOutcomes :
          IF outcome = "model_load_failure"
          THEN /\ run' = [run EXCEPT !.transcribe = outcome,
                                     !.errors = Append(@, "transcription_error")]
               /\ raw_segments' = <<>>
          ELSE IF ~fs["audio_path"].exists
          THEN /\ run' = [run EXCEPT !.transcribe = "audio_not_opened",
                                     !.errors = Append(@, "transcription_error")]
               /\ raw_segments' = <<>>
          ELSE IF ~MonoPcm16(fs["audio_path"])
          THEN /\ run' = [run EXCEPT !.transcribe = "wrong_format",
                                     !.errors = Append(@, "audio_format")]
               /\ raw_segments' = <<>>
          ELSE IF outcome = "engine_error"
          THEN /\ run' = [run EXCEPT !.transcribe = outcome,
                                     !.errors = Append(@, "transcription_error")]
               /\ raw_segments' = <<>>
          ELSE /\ run' = [run EXCEPT !.transcribe = outcome]
               /\ IsTranscript(raw_segments', MaxRunWords)
    /\ pc' = "Segmenting"
    /\ UNCHANGED <<fnVars, stage, max_line_length, max_line_duration, segments, refined, refined2,
                   srt, fs>>

(* The two emptiness checks of step 3 (lines 54 and 62). *)
NoSpeech(raw) == raw = <<>>

NoSegmentsUnchecked(segs) == FALSE

NoSegments(segs) == segs = <<>>

(* Step 3 (lines 52-64) and the first call of create_srt_file (line 69). *)
Segmenting ==
    /\ pc = "Segmenting"
    /\ IF NoSpeech(raw_segments)
       THEN /\ run' = Failed("no_speech")
            /\ pc' = "Failed"
            /\ UNCHANGED <<fnVars, segments, refined, srt>>
       ELSE LET lines == split_into_short_lines(raw_segments, max_line_length, max_line_duration)
                final == split_at_punctuation(lines)
            IN /\ segments' = lines
               /\ refined' = final
               /\ IF NoSegments(final)
                  THEN /\ run' = Failed("no_segments")
                       /\ pc' = "Failed"
                       /\ srt' = srt
                  ELSE /\ run' = run
                       /\ pc' = "Serializing"
                       /\ srt' = Call(final, "srt_path")
    /\ UNCHANGED <<fnVars, stage, raw_segments, max_line_length, max_line_duration, refined2, fs>>

(* The first subtitle file is written: the second call (line 70). *)
SerializeSecond ==
    /\ pc = "Serializing"
    /\ srt.state = "returned"
    /\ srt.path = "srt_path"
    /\ srt' = Call(refined, "project_srt_path")
    /\ UNCHANGED <<fnVars, stage, segVars, fs, pc, run>>

(* Both subtitle files are written: on to step 5. *)
SerializeDone ==
    /\ pc = "Serializing"
    /\ srt.state = "returned"
    /\ srt.path = "project_srt_path"
    /\ srt' = NoCall
    /\ pc' = "BurningSubtitles"
    /\ UNCHANGED <<fnVars, stage, segVars, fs, run>>

(* create_srt_file raised: the outer handler ends the run (lines 105-109). *)
SerializeRaised ==
    /\ pc = "Serializing"
    /\ srt.state = "raised"
    /\ srt' = NoCall
    /\ run' = Failed("processing_error")
    /\ pc' = "Failed"
    /\ UNCHANGED <<fnVars, stage, segVars, fs>>

(* ResultRecord with the burned video's path whether or not burn-in succeeded. *)
ResultRecordKeepsOutputPath(subtitle_burned, segs) ==
    [output_video_path |-> "output_video_path",
     srt_path |-> "srt_path",
     project_srt_path |-> "project_srt_path",
     segments |-> segs,
     subtitle_burned |-> subtitle_burned]

(* The result record (lines 95-101). *)
ResultRecord(subtitle_burned, segs) ==
    [output_video_path |-> IF subtitle_burned THEN "output_video_path" ELSE "video_path",
     srt_path |-> "srt_path",
     project_srt_path |-> "project_srt_path",
     segments |-> segs,
     subtitle_burned |-> subtitle_burned]

(* The run returns its result, after a burn-in that ended as `how`. *)
Finished(r, how) ==
    [r EXCEPT !.burn = how,
              !.errors = IF how = "succeeded" THEN @ ELSE Append(@, "burn_error"),
              !.returned = "result",
              !.result = ResultRecord(how = "succeeded", refined)]

(* The checks before burn-in (lines 78-82); the input video is not a file of
   the run and may be gone by now. *)
BurnPrecheck ==
    /\ pc = "BurningSubtitles"
    /\ run.burn = "none"
    /\ \E video_exists \in BOOLEAN :
          IF ~video_exists \/ ~fs["srt_path"].exists
          THEN /\ run' = Finished(run, "precheck_failed")
               /\ pc' = "Done"
          ELSE /\ run' = [run EXCEPT !.burn = "attempting"]
               /\ pc' = pc
    /\ UNCHANGED <<fnVars, stage, segVars, srt, fs>>

(* burn_subtitles_into_video's strategies in the order tried (utils.py lines
   146-243), and what the media tool may do in one attempt. *)
StrategiesRemuxFirst == <<"remux", "filter", "forced_style">>
Strategies == <<"filter", "remux", "forced_style">>
BurnOutcomes == {"ok", "nonzero", "empty_output"}

(* One attempt (utils.py lines 174-186, 210-215, 233-238); after the last
   failure the error is caught by process_video (lines 88-92), which returns
   its result either way (lines 95-103). *)
BurnAttempt ==
    /\ pc = "BurningSubtitles"
    /\ run.burn = "attempting"
    /\ \E outcome \in BurnOutcomes :
          LET k == Len(run.tried) + 1
              r == [run EXCEPT !.tried = Append(@, [strategy |-> Strategies[k],
                                                    outcome |-> outcome])]
          IN /\ fs' = IF outcome = "ok"
                      THEN [fs EXCEPT !["output_video_path"] = File(TRUE, 1, <<>>)]
                      ELSE IF outcome = "empty_output"
                      THEN [fs EXCEPT !["output_video_path"] = File(TRUE, 0, <<>>)]
                      ELSE fs
             /\ IF outcome = "ok"
                THEN run' = Finished(r, "succeeded") /\ pc' = "Done"
                ELSE IF k < Len(Strategies)
                THEN run' = r /\ pc' = pc
                ELSE run' = Finished(r, "failed") /\ pc' = "Done"
    /\ UNCHANGED <<fnVars, stage, segVars, srt>>

process_video ==
    \/ Start
    \/ extract_audio
    \/ transcribe_audio
    \/ Segmenting
    \/ create_srt_file
    \/ SerializeSecond
    \/ SerializeDone
    \/ SerializeRaised
    \/ BurnPrecheck
    \/ BurnAttempt

Next == process_video

Spec == Init /\ [][Next]_vars

----------------------------------------------------------------------------
(* The Recognition Adapter on its own: transcribe_audio called on every audio,
   with a model that loads or not, an engine that works or not, and a progress
   placeholder given or None. *)

(* An engine result without text: silence. *)
Silence == [text |-> <<>>, result |-> <<>>]

Spoken(w) == Batch(<<[word |-> w, start |-> Q(0), end |-> Q(1)]>>)

(* What the recogniser gives for an audio, chunk results first and the final
   result last (lines 46-47 and 54). *)
AudioResults ==
    {<<Silence>>, <<Silence, Silence>>} \cup
    {<<Spoken(w)>> : w \in WordTexts} \cup
    {<<Spoken(w), Silence>> : w \in WordTexts} \cup
    {<<Silence, Spoken(w)>> : w \in WordTexts}

(* An audio file: whether it is mono 16-bit PCM, and what can be heard in it. *)
Audios == {[mono_pcm16 |-> f, results |-> r] : f \in BOOLEAN, r \in AudioResults}

Observers == {"attached", "none"}

(* The results kept: those whose text is not blank (lines 48-51 and 55-56). *)
KeptResults(results) == SelectSeq(results, LAMBDA r : strip(r.text) # <<>>)

(* The handler of line 61: the error is shown and an empty list returned. *)
TranscriptionRaised == [returned |-> <<>>, errors |-> <<"transcription_error">>]

(* transcribe_audio (lines 9-65) as a function of what it meets: the model is
   loaded first (line 12), then the format checked (line 20), then the progress
   bar asked of the placeholder (line 33), which raises when there is none,
   then the audio fed to the engine (lines 36-56). *)
Transcription(audio, model_loads, engine_ok, observer) ==
    IF ~model_loads THEN TranscriptionRaised
    ELSE IF ~audio.mono_pcm16 THEN [returned |-> <<>>, errors |-> <<"audio_format">>]
    ELSE IF observer = "none" THEN TranscriptionRaised
    ELSE IF ~engine_ok THEN TranscriptionRaised
    ELSE [returned |-> KeptResults(audio.results), errors |-> <<>>]

MaxCalls == 2

InitTranscribe ==
    /\ stage = "transcribe"
    /\ calls = {}
    /\ IdleSegments
    /\ IdleSrt
    /\ IdleRun
    /\ IdleStamp
    /\ IdleSessions

(* One more call, recorded with its arguments and what came back. *)
TranscribeCall ==
    /\ stage = "transcribe"
    /\ Cardinality(calls) < MaxCalls
    /\ \E audio \in Audios, model_loads \in BOOLEAN, engine_ok \in BOOLEAN, observer \in Observers :
          LET out == Transcription(audio, model_loads, engine_ok, observer)
          IN calls' = calls \cup {[audio |-> audio, model_loads |-> model_loads,
                                    engine_ok |-> engine_ok, observer |-> observer,
                                    returned |-> out.returned, errors |-> out.errors]}
    /\ UNCHANGED <<stage, segVars, srt, fs, pc, run, stamp, sessions>>

NextTranscribe == TranscribeCall

SpecTranscribe == InitTranscribe /\ [][NextTranscribe]_vars

----------------------------------------------------------------------------
(* format_time on Python floats.  A float is a binary64 number: 53 significant
   bits.  A non-negative one is written here as its integer part and the bits
   of its fraction, [int |-> n, frac |-> <<b1, b2, ...>>] for n + b1/2 + b2/4
   + ..., so that no number beyond the integer part is ever needed. *)

Precision == 53

RECURSIVE BitLength(_)
BitLength(n) == IF n = 0 THEN 0 ELSE 1 + BitLength(n \div 2)

(* 2^i modulo d, by squaring. *)
RECURSIVE Pow2Mod(_, _)
Pow2Mod(i, d) ==
    IF i = 0 THEN 1 % d
    ELSE LET h == Pow2Mod(i \div 2, d)
         IN (h * h * (IF i % 2 = 1 THEN 2 ELSE 1)) % d

(* What is left of rem/d, 0 <= rem < d, after its first i bits, and its i-th bit. *)
RemainderAfter(rem, d, i) == (rem * Pow2Mod(i, d)) % d
FractionBit(rem, d, i) == (2 * RemainderAfter(rem, d, i - 1)) \div d

(* The zero bits before the first one bit of rem/d, 0 < rem < d. *)
RECURSIVE ZerosBeforeOne(_, _)
ZerosBeforeOne(rem, d) == IF 2 * rem >= d THEN 0 ELSE 1 + ZerosBeforeOne(2 * rem, d)

(* One unit added in the last place of the fraction. *)
RoundedUp(x) ==
    IF \A i \in DOMAIN x.frac : x.frac[i] = 1
    THEN [int |-> x.int + 1, frac |-> [i \in DOMAIN x.frac |-> 0]]
    ELSE LET j == CHOOSE j \in DOMAIN x.frac :
                      x.frac[j] = 0 /\ \A i \in (j + 1)..Len(x.frac) : x.frac[i] = 1
         IN [int |-> x.int,
             frac |-> [i \in DOMAIN x.frac |->
                          IF i < j THEN x.frac[i] ELSE IF i = j THEN 1 ELSE 0]]

(* Round to nearest, ties to even: x cut after `keep` fraction bits, given the
   first bit cut off and whether anything non-zero follows it. *)
Nearest(x, keep, next, rest) ==
    LET cut == [int |-> x.int, frac |-> SubSeq(x.frac, 1, keep)]
        odd == IF keep = 0 THEN x.int % 2 = 1 ELSE x.frac[keep] = 1
    IN IF next = 1 /\ (rest \/ odd) THEN RoundedUp(cut) ELSE cut

(* The fraction bits a binary64 number with this integer part and this many
   leading zero bits in its fraction can hold. *)
FractionRoom(int, zeros) ==
    IF int > 0 THEN Precision - BitLength(int) ELSE zeros + Precision

(* The float nearest to n/d: what Python holds for a decimal literal or for a
   number read by json.loads. *)
float_of(n, d) ==
    LET int == n \div d
        rem == n % d
    IN IF rem = 0 THEN [int |-> int, frac |-> <<>>]
       ELSE LET keep == FractionRoom(int, IF int > 0 THEN 0 ELSE ZerosBeforeOne(rem, d))
                x == [int |-> int, frac |-> [i \in 1..keep |-> FractionBit(rem, d, i)]]
            IN Nearest(x, keep, FractionBit(rem, d, keep + 1),
                       RemainderAfter(rem, d, keep + 1) # 0)

(* Bits lo..hi of a fraction read as a whole number, and a whole number below
   2^n written with n bits. *)
RECURSIVE BitsValue(_, _, _)
BitsValue(frac, lo, hi) == IF lo > hi THEN 0 ELSE 2 * BitsValue(frac, lo, hi - 1) + frac[hi]

BitsOf(v, n) == [j \in 1..n |-> (v \div 2^(n - j)) % 2]

(* The exact product of the fraction 0.b1 ... b(hi) and k, sixteen bits at a
   time from the last bit up. *)
RECURSIVE TimesFrom(_, _, _, _)
TimesFrom(frac, k, hi, carry) ==
    IF hi = 0 THEN [int |-> carry, frac |-> <<>>]
    ELSE LET lo == IF hi > 16 THEN hi - 15 ELSE 1
             n == hi - lo + 1
             v == BitsValue(frac, lo, hi) * k + carry
             upper == TimesFrom(frac, k, lo - 1, v \div 2^n)
         IN [int |-> upper.int, frac |-> upper.frac \o BitsOf(v % 2^n, n)]

LeadingZeros(frac) ==
    IF \A i \in DOMAIN frac : frac[i] = 0 THEN Len(frac)
    ELSE (CHOOSE i \in DOMAIN frac : frac[i] = 1 /\ \A j \in 1..(i - 1) : frac[j] = 0) - 1

(* An exact value rounded to the float the multiplication gives. *)
Rounded(x) ==
    LET keep == FractionRoom(x.int, LeadingZeros(x.frac))
    IN IF Len(x.frac) <= keep THEN x
       ELSE Nearest(x, keep, x.frac[keep + 1],
                    \E j \in (keep + 2)..Len(x.frac) : x.frac[j] = 1)

(* (seconds - int(seconds)) * 1000: the subtraction is exact, the product is
   rounded (line 112). *)
FractionTimes1000(seconds) == Rounded(TimesFrom(seconds.frac, 1000, Len(seconds.frac), 0))

(* format_time (lines 106-116) on a float.  The quotients of lines 108 and 110
   are rounded, but never up to the next whole number, so int() of them is the
   whole quotient of the integer part; % is exact on floats; only the product
   of line 112 is rounded before int() cuts it. *)
format_time_float(seconds) ==
    LET hours == seconds.int \div 3600
        seconds1 == [seconds EXCEPT !.int = @ % 3600]
        minutes == seconds1.int \div 60
        seconds2 == [seconds1 EXCEPT !.int = @ % 60]
        milliseconds == FractionTimes1000(seconds2).int
    IN Padded(Decimal(hours), 2) \o <<":">> \o Padded(Decimal(minutes), 2) \o <<":">>
       \o Padded(Decimal(seconds2.int), 2) \o <<",">> \o Padded(Decimal(milliseconds), 3)

MaxMillis == 1100

(* The times formatted: every whole millisecond up to MaxMillis, and 12.345 s,
   3661.5 s, one hour less a millisecond and a hundred hours and a quarter of a
   second. *)
Millis == (0..MaxMillis) \cup {12345, 3661500, 3599999, 360000250}

InitFormat ==
    /\ stage = "format"
    /\ stamp \in {[ms |-> T, text |-> <<>>] : T \in Millis}
    /\ IdleSegments
    /\ IdleSrt
    /\ IdleRun
    /\ IdleCalls
    /\ IdleSessions

(* format_time(T / 1000) *)
FormatTime ==
    /\ stage = "format"
    /\ stamp.text = <<>>
    /\ stamp' = [stamp EXCEPT !.text = format_time_float(float_of(stamp.ms, 1000))]
    /\ UNCHANGED <<stage, segVars, srt, fs, pc, run, calls, sessions>>

NextFormat == FormatTime

SpecFormat == InitFormat /\ [][NextFormat]_vars

----------------------------------------------------------------------------
(* Runs of process_video side by side, one per browser session: where each run
   puts its files (video_processor.py lines 14-36) and when it writes them. *)

MaxSessions == 2

(* The base names of the input videos: os.path.splitext(basename)[0]. *)
BaseNames == {"clip", "talk"}

(* tempfile.mkdtemp(): the n-th directory made, never one made before. *)
TempDir(n) == [root |-> "tmp", n |-> n]

(* os.path.join("output", "subtitles") and os.path.join("output", "videos"):
   the same two directories for every run. *)
ProjectDir(name) == [root |-> name, n |-> 0]

JoinPath(dir, base_name, suffix) == [dir |-> dir, file |-> <<base_name, suffix>>]

(* Lines 22, 28, 29 and 36. *)
AudioPathOf(r) == JoinPath(r.temp_dir, r.base_name, "_audio.wav")
SrtPathOf(r) == JoinPath(r.temp_dir, r.base_name, ".srt")
ProjectSrtPathOf(r) == JoinPath(ProjectDir("output/subtitles"), r.base_name, ".srt")
OutputVideoPathOf(r) == JoinPath(ProjectDir("output/videos"), r.base_name, "_with_subs.mp4")

(* The steps of a run that write a file, in order, and the file each writes:
   extract_audio, the two create_srt_file calls, burn_subtitles_into_video. *)
WritingSteps == <<"extract", "serialize", "serialize_project", "burn">>

PathWritten(r) ==
    CASE r.at = 1 -> AudioPathOf(r)
      [] r.at = 2 -> SrtPathOf(r)
      [] r.at = 3 -> ProjectSrtPathOf(r)
      [] r.at = 4 -> OutputVideoPathOf(r)

Running(r) == r.at \in DOMAIN WritingSteps

InitSessions ==
    /\ stage = "sessions"
    /\ sessions = NoSessions
    /\ IdleSegments
    /\ IdleSrt
    /\ IdleRun
    /\ IdleCalls
    /\ IdleStamp

(* A run starts (lines 14-36): it makes its directory and fixes its paths.  The
   runs still executing at that moment are the ones it runs alongside. *)
SessionStart ==
    /\ stage = "sessions"
    /\ Len(sessions.runs) < MaxSessions
    /\ \E base_name \in BaseNames :
          sessions' = [sessions EXCEPT
              !.dirs = @ + 1,
              !.runs = Append(@, [base_name |-> base_name,
                                  temp_dir |-> TempDir(sessions.dirs + 1),
                                  at |-> 1,
                                  alongside |-> {k \in DOMAIN sessions.runs :
                                                    Running(sessions.runs[k])}])]
    /\ UNCHANGED <<stage, segVars, srt, fs, pc, run, calls, stamp>>

(* A run's next writing step: the file of that step is written. *)
SessionWrites ==
    /\ stage = "sessions"
    /\ \E k \in DOMAIN sessions.runs :
          /\ Running(sessions.runs[k])
          /\ sessions' = [sessions EXCEPT
                 !.writes = @ \cup {[run |-> k, path |-> PathWritten(sessions.runs[k])]},
                 !.runs[k].at = @ + 1]
    /\ UNCHANGED <<stage, segVars, srt, fs, pc, run, calls, stamp>>

(* A run ends early: a fatal step, or burn-in that wrote nothing. *)
SessionEnds ==
    /\ stage = "sessions"
    /\ \E k \in DOMAIN sessions.runs :
          /\ Running(sessions.runs[k])
          /\ sessions' = [sessions EXCEPT !.runs[k].at = Len(WritingSteps) + 1]
    /\ UNCHANGED <<stage, segVars, srt, fs, pc, run, calls, stamp>>

NextSessions == SessionStart \/ SessionWrites \/ SessionEnds

SpecSessions == InitSessions /\ [][NextSessions]_vars

----------------------------------------------------------------------------
(* Claims about the Line Segmenter and the Sentence Splitter. *)

SegTexts(segs) == [i \in 1..Len(segs) |-> segs[i].text]

RECURSIVE AllWords(_)
AllWords(raw) == IF raw = <<>> THEN <<>> ELSE Head(raw).result \o AllWords(Tail(raw))

Sorted(segs) == \A i \in 1..(Len(segs) - 1) : RLe(segs[i].start, segs[i + 1].start)

Chronological(raw) ==
    LET ws == AllWords(raw)
    IN \A i \in 1..(Len(ws) - 1) : RLe(ws[i].start, ws[i + 1].start)

(* C1: the texts of the Line Segmenter's output, joined in order with single
   spaces, are the words of all batches in speech order, each exactly once. *)
C1_NoWordLost ==
    stage # "input" =>
        JoinTexts(SegTexts(segments)) = JoinTexts(WordTextsOf(AllWords(raw_segments)))

(* C1's case: three words of two batches came out as two or more lines, one of
   them holding more than one word. *)
C1_Witness ==
    /\ stage = "lines"
    /\ Len(raw_segments) = 2
    /\ Len(AllWords(raw_segments)) = 3
    /\ Len(segments) >= 2
    /\ \E i \in DOMAIN segments : \E j \in DOMAIN segments[i].text : segments[i].text[j] = " "

(* C2: for chronological batches of words with start <= end and non-decreasing
   start times, the final segment sequence is non-decreasing in start. *)
C2_SortedByStart ==
    (stage = "refined" /\ Chronological(raw_segments)) => Sorted(refined)

(* C3: every segment of the final sequence has start <= end. *)
C3_StartLeEnd ==
    stage = "refined" => \A i \in DOMAIN refined : RLe(refined[i].start, refined[i].end)

(* C3's case: the Sentence Splitter divided a line of positive duration. *)
C3_Witness ==
    /\ stage = "refined"
    /\ Len(refined) > Len(segments)
    /\ \E i \in DOMAIN segments : RLt(segments[i].start, segments[i].end)

(* The number of terminal marks of a text, and the number of runs a segment
   gives: one per mark, or the segment itself when it has none. *)
Marks(text) == Cardinality({i \in 1..Len(text) : text[i] \in Terminal})
RunCount(segment) == IF Marks(segment.text) = 0 THEN 1 ELSE Marks(segment.text)

RECURSIVE RunsBefore(_, _)
RunsBefore(segs, i) == IF i = 0 THEN 0 ELSE RunsBefore(segs, i - 1) + RunCount(segs[i])

RunsAt(i) == SubSeq(refined, RunsBefore(segments, i - 1) + 1, RunsBefore(segments, i))

RECURSIVE SumDurations(_)
SumDurations(runs) ==
    IF runs = <<>> THEN Q(0)
    ELSE RAdd(RSub(Head(runs).end, Head(runs).start), SumDurations(Tail(runs)))

(* C4: the runs of a split segment start at the segment's start, each next run
   starts at the previous run's end, the last run ends at the segment's end and
   the durations sum to end - start. *)
C4_TimeAllocation ==
    stage # "lines" =>
        /\ Len(refined) = RunsBefore(segments, Len(segments))
        /\ \A i \in DOMAIN segments :
              Marks(segments[i].text) > 0 =>
                  LET runs == RunsAt(i)
                  IN /\ runs[1].start = segments[i].start
                     /\ \A k \in 1..(Len(runs) - 1) : runs[k + 1].start = runs[k].end
                     /\ runs[Len(runs)].end = segments[i].end
                     /\ SumDurations(runs) = RSub(segments[i].end, segments[i].start)

(* C4's case: a segment of positive duration with two marks was split. *)
C4_Witness ==
    /\ stage = "refined"
    /\ \E i \in DOMAIN segments :
          /\ Marks(segments[i].text) >= 2
          /\ RLt(segments[i].start, segments[i].end)
          /\ Len(RunsAt(i)) = 2

(* C5: the Sentence Splitter applied to its own output changes nothing. *)
C5_Idempotent == stage = "refined2" => refined2 = refined

(* C5's case: the first pass split a segment of positive duration, and the
   second pass ran. *)
C5_Witness ==
    /\ stage = "refined2"
    /\ Len(refined) > Len(segments)
    /\ \E i \in DOMAIN segments : RLt(segments[i].start, segments[i].end)

(* The words of a line's text: one more than its spaces. *)
WordCount(text) == Cardinality({i \in 1..Len(text) : text[i] = " "}) + 1

OverLong(segment) == Len(segment.text) > max_line_length
OverLasting(segment) == RLt(max_line_duration, RSub(segment.end, segment.start))

(* C16: a line of two or more words is within both thresholds, so a line beyond
   a threshold is one word; such a word is a line of its own, whole, and no
   line is empty or untrimmed. *)
C16_LineBounds ==
    stage # "input" =>
        /\ \A i \in DOMAIN segments :
              /\ segments[i].text # <<>>
              /\ segments[i].text = strip(segments[i].text)
              /\ WordCount(segments[i].text) >= 2 =>
                    ~OverLong(segments[i]) /\ ~OverLasting(segments[i])
              /\ (OverLong(segments[i]) \/ OverLasting(segments[i])) =>
                    WordCount(segments[i].text) = 1
        /\ \A w \in DOMAIN AllWords(raw_segments) :
              Len(AllWords(raw_segments)[w].word) > max_line_length =>
                  \E i \in DOMAIN segments : segments[i].text = AllWords(raw_segments)[w].word

(* C16's case: a line of two words within the thresholds next to a word that
   lasts longer than max_line_duration, alone on its line. *)
C16_Witness ==
    /\ stage = "lines"
    /\ \E i \in DOMAIN segments : WordCount(segments[i].text) = 2
    /\ \E i \in DOMAIN segments : OverLasting(segments[i])

(* Words i..j of a batch as one line: within both thresholds or not. *)
Fits(words, i, j, L, D) ==
    /\ Len(JoinTexts(WordTextsOf(SubSeq(words, i, j)))) <= L
    /\ RLe(RSub(words[j].end, words[i].start), D)

(* The last word of the line that starts at word i and holds words i..j so far:
   the line grows while the next word fits. *)
RECURSIVE LineEnd(_, _, _, _, _)
LineEnd(words, i, j, L, D) ==
    IF j < Len(words) /\ Fits(words, i, j + 1, L, D)
    THEN LineEnd(words, i, j + 1, L, D)
    ELSE j

RECURSIVE GreedyLines(_, _, _, _)
GreedyLines(words, i, L, D) ==
    IF i > Len(words) THEN <<>>
    ELSE LET j == LineEnd(words, i, i, L, D)
         IN <<Segment(JoinTexts(WordTextsOf(SubSeq(words, i, j))), words[i].start, words[j].end)>>
            \o GreedyLines(words, j + 1, L, D)

RECURSIVE GreedyBatches(_, _, _)
GreedyBatches(raw, L, D) ==
    IF raw = <<>> THEN <<>>
    ELSE GreedyLines(Head(raw).result, 1, L, D) \o GreedyBatches(Tail(raw), L, D)

(* C17: within a batch a line ends before a word exactly when the words joined
   by single spaces would be longer than max_line_length or the word's end
   later than max_line_duration after the line's start; a line of exactly
   max_line_length characters is kept; each line starts at its first word's
   start and ends at its last word's end.  hi, there, friend with thresholds 8
   and 3.0 give "hi there" (0.0-1.0) and "friend" (1.1-1.6). *)
C17_Greedy ==
    stage # "input" =>
        /\ segments = GreedyBatches(raw_segments, max_line_length, max_line_duration)
        /\ (raw_segments = HiThereFriend /\ max_line_length = 8) =>
              segments = <<Segment(<<"h", "i", " ", "t", "h", "e", "r", "e">>, Rat(0, 10), Rat(10, 10)),
                           Segment(<<"f", "r", "i", "e", "n", "d">>, Rat(11, 10), Rat(16, 10))>>

(* C17's case: hi, there, friend were segmented with max_line_length 8. *)
C17_Witness ==
    /\ stage = "lines"
    /\ raw_segments = HiThereFriend
    /\ max_line_length = 8
    /\ Len(segments) = 2

NonWhitespace(text) == SelectSeq(text, LAMBDA c : c \notin Whitespace)

RECURSIVE ConcatTexts(_)
ConcatTexts(runs) == IF runs = <<>> THEN <<>> ELSE Head(runs).text \o ConcatTexts(Tail(runs))

(* The text after the last terminal mark. *)
Remainder(text) ==
    LET last == CHOOSE i \in 1..Len(text) :
                    text[i] \in Terminal /\ \A j \in (i + 1)..Len(text) : text[j] \notin Terminal
    IN SubSeq(text, last + 1, Len(text))

EndsWith(text, suffix) ==
    /\ Len(suffix) <= Len(text)
    /\ SubSeq(text, Len(text) - Len(suffix) + 1, Len(text)) = suffix

(* C19: the runs of a segment hold its non-whitespace characters in order; a
   segment without a terminal mark passes unchanged; every run but the last
   ends with a terminal mark; the text after the last mark ends the last run. *)
C19_NoTextLost ==
    stage # "lines" =>
        \A i \in DOMAIN segments :
            LET text == segments[i].text
                runs == RunsAt(i)
            IN /\ NonWhitespace(ConcatTexts(runs)) = NonWhitespace(text)
               /\ Marks(text) = 0 => runs = <<segments[i]>>
               /\ \A k \in 1..(Len(runs) - 1) : runs[k].text[Len(runs[k].text)] \in Terminal
               /\ Marks(text) > 0 => EndsWith(runs[Len(runs)].text, rstrip(Remainder(text)))

(* C19's case: a segment with two marks and text after the last one was split. *)
C19_Witness ==
    /\ stage = "refined"
    /\ \E i \in DOMAIN segments :
          /\ Marks(segments[i].text) = 2
          /\ NonWhitespace(Remainder(segments[i].text)) # <<>>
          /\ Len(RunsAt(i)) = 2

----------------------------------------------------------------------------
(* Claims about the Subtitle Serializer. *)

Kept(segs) == {i \in 1..Len(segs) : strip(segs[i].text) # <<>>}

(* C6: each written block carries its segment's 1-based input position, blocks
   are in input order, and a segment whose trimmed text is empty has no block. *)
C6_Numbering ==
    srt.state \in {"writing", "returned", "raised"} =>
        LET blocks == fs[srt.path].blocks
        IN /\ \A k \in DOMAIN blocks :
                 /\ blocks[k].index \in Kept(srt.segs)
                 /\ blocks[k].text = strip(srt.segs[blocks[k].index].text)
                 /\ blocks[k].start = format_time(srt.segs[blocks[k].index].start)
                 /\ blocks[k].end = format_time(srt.segs[blocks[k].index].end)
           /\ \A k \in 1..(Len(blocks) - 1) : blocks[k].index < blocks[k + 1].index
           /\ srt.state = "returned" =>
                 \A i \in Kept(srt.segs) : \E k \in DOMAIN blocks : blocks[k].index = i

(* C6's case: a call returned after skipping an empty segment that came before
   a kept one. *)
C6_Witness ==
    /\ srt.state = "returned"
    /\ \E i \in 1..Len(srt.segs) : i \notin Kept(srt.segs) /\ (i + 1) \in Kept(srt.segs)

(* C7: a call that returned left a complete, non-empty file at the output path;
   a call that failed left no file there. *)
C7_Atomic ==
    /\ srt.state = "returned" =>
          /\ fs[srt.path].exists
          /\ fs[srt.path].size > 0
          /\ Len(fs[srt.path].blocks) = Cardinality(Kept(srt.segs))
    /\ srt.state = "raised" => ~fs[srt.path].exists

----------------------------------------------------------------------------
(* Claims about the Pipeline Orchestrator. *)

(* The subtitle file at `path` holds a block for every segment of the run. *)
Written(path) ==
    /\ fs[path].exists
    /\ fs[path].size > 0
    /\ Len(fs[path].blocks) = Len(refined)
    /\ \A k \in DOMAIN refined : fs[path].blocks[k].text = refined[k].text

(* C8: when burn-in fails, in its checks or in all three attempts, the run
   still ends Done with a result: subtitle_burned false, the input video as
   output path, the run's segments, and both subtitle files written; a run
   that reached burn-in never ends Failed. *)
C8_BurnFailureNonFatal ==
    /\ run.burn \in {"failed", "precheck_failed"} =>
          /\ pc = "Done"
          /\ run.returned = "result"
          /\ run.result.subtitle_burned = FALSE
          /\ run.result.output_video_path = "video_path"
          /\ run.result.segments = refined
          /\ refined # <<>>
          /\ Written("srt_path")
          /\ Written("project_srt_path")
    /\ pc = "Failed" => run.burn = "none"

(* C8's case: all three strategies were tried and failed. *)
C8_Witness ==
    /\ pc = "Done"
    /\ run.burn = "failed"
    /\ Len(run.tried) = 3
    /\ run.extract = "ok"
    /\ Len(refined) >= 2

(* C9: a run is in Serializing or beyond only with at least one batch and at
   least one segment; with no batch or no segment it ends Failed, returns no
   result, writes no subtitle file and never starts burn-in. *)
C9_EmptyIsFatal ==
    /\ pc \in {"Serializing", "BurningSubtitles", "Done"} =>
          raw_segments # <<>> /\ refined # <<>>
    /\ (pc \notin {"Idle", "ExtractingAudio", "Transcribing", "Segmenting"}
        /\ (raw_segments = <<>> \/ refined = <<>>)) =>
          /\ pc = "Failed"
          /\ run.returned = "None"
          /\ srt = NoCall
          /\ ~fs["srt_path"].exists
          /\ ~fs["project_srt_path"].exists
          /\ run.burn = "none"

(* C9's case: transcription returned a batch, and both passes gave no segment. *)
C9_Witness ==
    /\ pc = "Failed"
    /\ run.transcribe = "ok"
    /\ raw_segments # <<>>
    /\ refined = <<>>

(* C10: a run whose audio extraction failed ends Failed, without a subtitle
   file, and the failure is found in the extraction step: transcription is
   never started and the failure is not reported as "no speech detected". *)
C10_ExtractionFailureFatal ==
    (pc \in {"Done", "Failed"} /\ ExtractionFailed(run.extract)) =>
        /\ pc = "Failed"
        /\ ~fs["srt_path"].exists
        /\ ~fs["project_srt_path"].exists
        /\ run.transcribe = "none"
        /\ \A k \in DOMAIN run.errors : run.errors[k] # "no_speech"

(* C15: the stages come in the order ExtractingAudio, Transcribing, Segmenting,
   Serializing, BurningSubtitles, each entered only after the one before
   finished successfully: transcription only with the audio extracted, the
   segmenters only on a transcription that succeeded, serialization only with
   segments, burn-in only with both subtitle files written; and a run has
   returned a result exactly when Done, nothing exactly when Failed. *)
C15_StageOrder ==
    /\ pc \in {"Idle", "ExtractingAudio"} =>
          /\ run.extract = "none" /\ run.transcribe = "none" /\ run.burn = "none"
          /\ segments = <<>> /\ srt = NoCall
    /\ pc = "Transcribing" =>
          /\ run.extract = "ok"
          /\ run.transcribe = "none" /\ run.burn = "none"
          /\ segments = <<>> /\ srt = NoCall
    /\ pc = "Segmenting" =>
          /\ run.transcribe # "none" /\ run.burn = "none"
          /\ segments = <<>> /\ srt = NoCall
    /\ segments # <<>> => run.transcribe = "ok"
    /\ pc = "Serializing" =>
          /\ run.transcribe = "ok" /\ refined # <<>>
          /\ srt # NoCall /\ run.burn = "none"
    /\ (pc = "BurningSubtitles" \/ run.burn # "none") =>
          /\ Written("srt_path") /\ Written("project_srt_path")
          /\ srt = NoCall
    /\ pc = "Done" <=> run.returned = "result"
    /\ pc = "Failed" <=> run.returned = "None"
    /\ pc = "Done" => run.burn \in {"succeeded", "failed", "precheck_failed"}

(* C18: the strategies are tried in the order direct filter burn, soft-subtitle
   re-mux, forced-style filter burn; every attempt but the last one made has
   failed, by a non-zero exit or an empty output file, so a strategy is tried
   only after the one before failed and none after a success; the call fails
   only with three failed attempts. *)
C18_FallbackOrder ==
    LET order == <<"filter", "remux", "forced_style">>
        tried == run.tried
    IN /\ Len(tried) <= 3
       /\ \A k \in DOMAIN tried : tried[k].strategy = order[k]
       /\ \A k \in 1..(Len(tried) - 1) : tried[k].outcome \in {"nonzero", "empty_output"}
       /\ run.burn = "failed" =>
             Len(tried) = 3 /\ \A k \in DOMAIN tried : tried[k].outcome # "ok"
       /\ run.burn = "succeeded" <=> (tried # <<>> /\ tried[Len(tried)].outcome = "ok")
       /\ run.burn = "attempting" => Len(tried) < 3

(* C18's case: the third strategy succeeded after the first ended with a
   non-zero exit and the second with an empty output file. *)
C18_Witness ==
    /\ pc = "Done"
    /\ run.burn = "succeeded"
    /\ Len(run.tried) = 3
    /\ run.tried[1].outcome = "nonzero"
    /\ run.tried[2].outcome = "empty_output"

(* C13: a time of T whole milliseconds is formatted as HH:MM:SS,mmm with HH =
   T div 3600000, MM = (T div 60000) mod 60, SS = (T div 1000) mod 60 and mmm =
   T mod 1000, zero-padded to 2, 2, 2 and 3 digits; 12.345 s gives
   00:00:12,345 and 3661.5 s gives 01:01:01,500. *)
C13_FormatTime ==
    stamp.text # <<>> =>
        /\ stamp.text = Padded(Decimal(stamp.ms \div 3600000), 2) \o <<":">>
                         \o Padded(Decimal((stamp.ms \div 60000) % 60), 2) \o <<":">>
                         \o Padded(Decimal((stamp.ms \div 1000) % 60), 2) \o <<",">>
                         \o Padded(Decimal(stamp.ms % 1000), 3)
        /\ stamp.ms = 12345 =>
              stamp.text = <<"0", "0", ":", "0", "0", ":", "1", "2", ",", "3", "4", "5">>
        /\ stamp.ms = 3661500 =>
              stamp.text = <<"0", "1", ":", "0", "1", ":", "0", "1", ",", "5", "0", "0">>

----------------------------------------------------------------------------
(* Claims about the Recognition Adapter. *)

(* How a call with a progress observer went: the first thing that failed, or
   whether any speech was found. *)
Cause(call) ==
    IF ~call.model_loads THEN "model_load_failure"
    ELSE IF ~call.audio.mono_pcm16 THEN "wrong_format"
    ELSE IF ~call.engine_ok THEN "engine_error"
    ELSE IF KeptResults(call.audio.results) = <<>> THEN "no_speech"
    ELSE "speech"

(* C11: of two calls that ended differently among wrong format, model load
   failure, engine error and success without speech, the values returned to
   the caller differ. *)
C11_DistinctFailures ==
    \A a \in calls, b \in calls :
        (/\ a.observer = "attached"
         /\ b.observer = "attached"
         /\ Cause(a) # "speech"
         /\ Cause(b) # "speech"
         /\ Cause(a) # Cause(b)) => a.returned # b.returned

(* C12: two calls on the same audio with the same model and engine, one with a
   progress observer and one without, return the same batches. *)
C12_ObserverOptional ==
    \A a \in calls, b \in calls :
        (/\ a.audio = b.audio
         /\ a.model_loads = b.model_loads
         /\ a.engine_ok = b.engine_ok
         /\ a.observer # b.observer) => a.returned = b.returned

----------------------------------------------------------------------------
(* Claims about concurrent runs. *)

(* Runs j and k executed at the same time: one started while the other ran. *)
Concurrent(j, k) ==
    \/ j \in sessions.runs[k].alongside
    \/ k \in sessions.runs[j].alongside

(* C14: no path written by one run is written by a run executing at the same
   time, whatever the base names of the two input videos. *)
C14_RunIsolation ==
    \A v \in sessions.writes, w \in sessions.writes :
        (v.run # w.run /\ Concurrent(v.run, w.run)) => v.path # w.path

============================================================================
